---- MODULE Spec2Model ----
(***************************************************************************)
(* Bar-driven backtests of iroilong/Backtest: the strategies of            *)
(* src/src/strategies driven bar by bar by the backtrader run loop, with   *)
(* the signal engines SmaCore and ReversalCore.                            *)
(*                                                                         *)
(* Numbers.  Prices are integers.  Cash, order sizes and fees are          *)
(* fixed-point integers counted in 1/Scale units; a division rounds down   *)
(* (the code computes in binary floating point).  Percentages are compared *)
(* after multiplying both sides by 100.                                    *)
(*                                                                         *)
(* One bar of the run loop is three steps: BrokerNext (the broker matches  *)
(* the orders submitted on the previous bar against the new bar and queues *)
(* the notifications), NotifyOrder (one call of notify_order for each      *)
(* queued notification), and the strategy's next().                        *)
(***************************************************************************)
EXTENDS Integers, Sequences, FiniteSets, TLC

\* ------------------------------------------------------------------ bounds
MaxBars == 6

Scale == 10 * 10 * 10
InitCapital == 1000 * Scale

None == "None"

\* ------------------------------------------------------------ program data
DefaultTakeProfitPct == 3
DefaultStopLossPct == 0 - 2
\* fee rates in 1/10000: 0.0010, 0.0008 (bearish_reversal, sma_strategy,
\* *_bt), 0.0004, 0.0002 (str_wick)
RateDen == 10 * Scale
TakerRate == 10
MakerRate == 8
WickTakerRate == 4
WickMakerRate == 2
BrokerCommission == 0

\* price levels of the bars fed to a run
Prices == {1, 2, 3}

\* OHLC records with low <= open, close <= high
Bars ==
  {b \in [open : Prices, high : Prices, low : Prices, close : Prices] :
      /\ b.low <= b.open /\ b.low <= b.close
      /\ b.open <= b.high /\ b.close <= b.high}

\* bars without wicks: the moving-average strategies read open and close only
PlainBars == {b \in Bars : (b.high = b.open \/ b.high = b.close)
                            /\ (b.low = b.open \/ b.low = b.close)}

NoBar == [open |-> 0, high |-> 0, low |-> 0, close |-> 0]

Abs(x) == IF x < 0 THEN 0 - x ELSE x

\* value * rate, rate in 1/RateDen
Fee(value, rate) == (value * rate) \div RateDen

VARIABLES
  variant,   \* which strategy class the run instantiates
  p,         \* the strategy's params and the run's sizer/cash arguments
  pc,        \* position in the bar cycle: "bar", "notify", "next"
  nbars,     \* bars delivered so far
  bar,       \* the current bar (data.*[0])
  prev,      \* the previous bar (data.*[-1])
  broker,    \* cash, startingcash, position size and price
  pending,   \* orders submitted by next(), matched on the following bar
  notes,     \* queued order notifications
  st,        \* the strategy object's fields
  core,      \* the signal engine object's fields
  obs        \* observation of the last step: orders placed, signal, fill

vars == <<variant, p, pc, nbars, bar, prev, broker, pending, notes, st, core, obs>>

NoCore == [kind |-> None]

\* the fill being booked: cash and position before the broker matched the
\* order, then what notify_order saw (done once it saw Completed)
Fill0 == [cash |-> 0, size |-> 0, isbuy |-> FALSE, esize |-> 0, eprice |-> 0,
          comm |-> 0, done |-> FALSE]

\* emitted: the last value other than None that update returned; pre: the
\* signal engine as it was before the last call of update
Obs0 == [placed |-> <<>>, signal |-> None, fill |-> Fill0, status |-> None,
         cmp |-> None, prevcmp |-> None, called |-> FALSE,
         emitted |-> None, pre |-> None]

\* ------------------------------------------------------------------ broker
Broker0(c) == [cash |-> c, startingcash |-> c, size |-> 0, price |-> 0]

\* broker.set_cash: backtrader's setcash also rebases startingcash
SetCash(b, c) == [b EXCEPT !.cash = c, !.startingcash = c]

\* an order: info is the one entry the strategy attaches to it ("tp", "sl":
\* the exit reason; "taker", "maker": maker_or_taker; "entry"; "" for none)
Order(isbuy, size, created, info) ==
  [isbuy |-> isbuy, size |-> size, created |-> created, info |-> info]

Note(status, o, esize, eprice) ==
  [status |-> status, isbuy |-> o.isbuy, size |-> esize, price |-> eprice,
   info |-> o.info]

\* position after trading dsize (signed) at price
PosUpdate(b, dsize, price) ==
  LET nsize == b.size + dsize IN
  [b EXCEPT !.size = nsize,
            !.price = IF nsize = 0 THEN 0
                      ELSE IF b.size = 0 THEN price
                      ELSE IF (b.size > 0) # (nsize > 0) THEN price
                      ELSE IF Abs(nsize) > Abs(b.size)
                           THEN (b.size * b.price + dsize * price) \div nsize
                      ELSE b.price]

\* the broker matches one market order: pseudo-execution at the price the
\* order was created with (check_submitted), then execution at the open of
\* the new bar.  Result: the broker and the notifications of the order.
Execute(b, o, open) ==
  LET signed  == IF o.isbuy THEN o.size ELSE 0 - o.size
      pseudo  == b.cash - signed * o.created
                 - Fee(Abs(signed * o.created), BrokerCommission)
      after   == b.cash - signed * open
                 - Fee(Abs(signed * open), BrokerCommission)
  IN  IF pseudo < 0
        THEN [b |-> b,
              n |-> << Note("Submitted", o, 0, 0), Note("Margin", o, 0, 0) >>]
      ELSE IF after < 0
        THEN [b |-> b,
              n |-> << Note("Submitted", o, 0, 0), Note("Accepted", o, 0, 0),
                       Note("Margin", o, 0, 0) >>]
      ELSE [b |-> PosUpdate([b EXCEPT !.cash = after], signed, open),
            n |-> << Note("Submitted", o, 0, 0), Note("Accepted", o, 0, 0),
                     Note("Completed", o, signed, open) >>]

RECURSIVE ExecuteAll(_, _, _)
ExecuteAll(b, os, open) ==
  IF os = <<>> THEN [b |-> b, n |-> <<>>]
  ELSE LET r1 == Execute(b, Head(os), open)
           r2 == ExecuteAll(r1.b, Tail(os), open)
       IN  [b |-> r2.b, n |-> r1.n \o r2.n]

\* strategy.buy(size): no order for a size of 0
BuyOrders(size, created, info) ==
  IF size = 0 THEN <<>> ELSE << Order(TRUE, Abs(size), created, info) >>

\* strategy.sell(size)
SellOrders(size, created, info) ==
  IF size = 0 THEN <<>> ELSE << Order(FALSE, Abs(size), created, info) >>

\* strategy.close(): an order against the whole position
CloseOrders(b, created, info) ==
  IF b.size > 0 THEN << Order(FALSE, b.size, created, info) >>
  ELSE IF b.size < 0 THEN << Order(TRUE, 0 - b.size, created, info) >>
  ELSE <<>>

\* ------------------------------------------------------------------ sizers
\* a sizer without the cap on the cash at hand
FixedAmountSizerNoCap(b, fixed_percent, close) ==
  ((b.startingcash * fixed_percent) \div 100) \div close

\* FixedAmountSizer._getsizing
FixedAmountSizer(b, fixed_percent, close) ==
  LET order_value == (b.startingcash * fixed_percent) \div 100 IN
  (IF b.cash < order_value THEN b.cash ELSE order_value) \div close

\* -------------------------------------------------------------- thresholds
\* high >= entry_price * (1 + take_profit_pct / 100)
TakeProfitHit(high, entry_price, take_profit_pct) ==
  high * 100 >= entry_price * (100 + take_profit_pct)

\* low <= entry_price * (1 + stop_loss_pct / 100)
StopLossHit(low, entry_price, stop_loss_pct) ==
  low * 100 <= entry_price * (100 + stop_loss_pct)

\* ------------------------------------------------------------ the run loop
\* broker.next() on a new bar
BrokerNext ==
  /\ pc = "bar"
  /\ nbars < MaxBars
  /\ \E b \in (IF variant \in {"SMA", "SMABT"} THEN PlainBars ELSE Bars) :
       LET r == ExecuteAll(broker, pending, b.open) IN
       /\ bar' = b
       /\ prev' = bar
       /\ nbars' = nbars + 1
       /\ broker' = r.b
       /\ notes' = r.n
       /\ pending' = <<>>
       /\ pc' = IF r.n = <<>> THEN "next" ELSE "notify"
       /\ obs' = [obs EXCEPT !.placed = <<>>, !.called = FALSE,
                             !.status = None,
                             !.fill = [Fill0 EXCEPT !.cash = broker.cash,
                                                    !.size = broker.size]]
  /\ UNCHANGED <<variant, p, st, core>>

\* the observation of a fill kept for the fill that notify_order books
ObsFill(o, n, comm) ==
  IF n.status = "Completed"
    THEN [o EXCEPT !.status = n.status,
                   !.fill = [cash |-> o.fill.cash, size |-> o.fill.size,
                             isbuy |-> n.isbuy, esize |-> n.size,
                             eprice |-> n.price, comm |-> comm,
                             done |-> TRUE]]
  ELSE [o EXCEPT !.status = n.status]

\* ------------------------------------ bearish_reversal_strategy.py (BR)
BRInit ==
  [streak_count |-> 0, triggered |-> FALSE, buy_count |-> 0,
   sell_count |-> 0, total_commission |-> 0, in_trade |-> FALSE]

\* ConsecutiveBearishBuyMarketStrategy.next, part (2): streak counting and
\* the entry on the first bullish bar
BREntry(s, b, br, pp) ==
  IF ~s.triggered
    THEN IF b.close < b.open
           THEN [st |-> [s EXCEPT
                           !.streak_count = s.streak_count + 1,
                           !.triggered =
                              (s.streak_count + 1 = pp.consecutive)],
                 orders |-> <<>>]
         ELSE [st |-> [s EXCEPT !.streak_count = 0], orders |-> <<>>]
  ELSE IF b.close > b.open
    THEN [st |-> [s EXCEPT !.in_trade = TRUE, !.triggered = FALSE,
                           !.streak_count = 0],
          orders |-> BuyOrders(FixedAmountSizer(br, pp.percent, b.close),
                               b.close, "entry")]
  ELSE [st |-> s, orders |-> <<>>]

\* a next() that tests the thresholds of the entry bar itself, from its
\* close, right after the buy
BRNextExitSameBar(s, b, br, pp) ==
  IF s.in_trade /\ br.size # 0
    THEN IF TakeProfitHit(b.high, br.price, pp.take_profit_pct)
           THEN [st |-> s, orders |-> CloseOrders(br, b.close, "tp")]
         ELSE IF StopLossHit(b.low, br.price, pp.stop_loss_pct)
           THEN [st |-> s, orders |-> CloseOrders(br, b.close, "sl")]
         ELSE [st |-> s, orders |-> <<>>]
  ELSE IF ~s.in_trade
    THEN LET e == BREntry(s, b, br, pp) IN
         IF /\ e.orders # <<>>
            /\ \/ TakeProfitHit(b.high, b.close, pp.take_profit_pct)
               \/ StopLossHit(b.low, b.close, pp.stop_loss_pct)
           THEN [st |-> e.st,
                 orders |-> e.orders
                            \o SellOrders(e.orders[1].size, b.close, "sl")]
         ELSE e
  ELSE [st |-> s, orders |-> <<>>]

\* a next() that goes on to part (2) when no exit fired
BRNextFallsThrough(s, b, br, pp) ==
  IF s.in_trade /\ br.size # 0
    THEN IF TakeProfitHit(b.high, br.price, pp.take_profit_pct)
           THEN [st |-> s, orders |-> CloseOrders(br, b.close, "tp")]
         ELSE IF StopLossHit(b.low, br.price, pp.stop_loss_pct)
           THEN [st |-> s, orders |-> CloseOrders(br, b.close, "sl")]
         ELSE BREntry(s, b, br, pp)
  ELSE IF ~s.in_trade THEN BREntry(s, b, br, pp)
  ELSE [st |-> s, orders |-> <<>>]

\* a next() that tests the stop-loss before the take-profit
BRNextStopFirst(s, b, br, pp) ==
  IF s.in_trade /\ br.size # 0
    THEN IF StopLossHit(b.low, br.price, pp.stop_loss_pct)
           THEN [st |-> s, orders |-> CloseOrders(br, b.close, "sl")]
         ELSE IF TakeProfitHit(b.high, br.price, pp.take_profit_pct)
           THEN [st |-> s, orders |-> CloseOrders(br, b.close, "tp")]
         ELSE [st |-> s, orders |-> <<>>]
  ELSE IF ~s.in_trade THEN BREntry(s, b, br, pp)
  ELSE [st |-> s, orders |-> <<>>]

\* ConsecutiveBearishBuyMarketStrategy.next: strategy fields and the
\* orders it submits
BRNextResult(s, b, br, pp) ==
  IF s.in_trade /\ br.size # 0
    THEN IF TakeProfitHit(b.high, br.price, pp.take_profit_pct)
           THEN [st |-> s, orders |-> CloseOrders(br, b.close, "tp")]
         ELSE IF StopLossHit(b.low, br.price, pp.stop_loss_pct)
           THEN [st |-> s, orders |-> CloseOrders(br, b.close, "sl")]
         ELSE [st |-> s, orders |-> <<>>]
  ELSE IF ~s.in_trade THEN BREntry(s, b, br, pp)
  ELSE [st |-> s, orders |-> <<>>]

BRNext ==
  /\ variant = "BR"
  /\ pc = "next"
  /\ LET r == BRNextResult(st, bar, broker, p) IN
       /\ st' = r.st
       /\ pending' = pending \o r.orders
       /\ obs' = [obs EXCEPT !.placed = r.orders, !.called = TRUE]
  /\ pc' = "bar"
  /\ UNCHANGED <<variant, p, nbars, bar, prev, broker, notes, core>>

\* a notify_order that leaves in_trade set when the order is not filled
BRNotifyKeepsInTrade(s, br, n) ==
  IF n.status = "Completed"
    THEN LET trade_value == Abs(n.size * n.price)
             commrate    == IF n.info = "maker" THEN MakerRate ELSE TakerRate
             commission  == Fee(trade_value, commrate)
             s1 == [s EXCEPT !.total_commission = @ + commission]
         IN  [st |-> IF n.isbuy
                       THEN [s1 EXCEPT !.buy_count = @ + 1]
                     ELSE [s1 EXCEPT !.sell_count = @ + 1,
                                     !.in_trade = FALSE],
              b  |-> SetCash(br, br.cash - commission),
              comm |-> commission]
  ELSE [st |-> s, b |-> br, comm |-> 0]

\* a notify_order that charges the maker rate unless the order is marked
\* taker
BRNotifyMakerDefault(s, br, n) ==
  IF n.status = "Completed"
    THEN LET trade_value == Abs(n.size * n.price)
             commrate    == IF n.info = "taker" THEN TakerRate ELSE MakerRate
             commission  == Fee(trade_value, commrate)
             s1 == [s EXCEPT !.total_commission = @ + commission]
         IN  [st |-> IF n.isbuy
                       THEN [s1 EXCEPT !.buy_count = @ + 1]
                     ELSE [s1 EXCEPT !.sell_count = @ + 1,
                                     !.in_trade = FALSE],
              b  |-> SetCash(br, br.cash - commission),
              comm |-> commission]
  ELSE IF n.status \in {"Canceled", "Margin", "Rejected"}
    THEN [st |-> [s EXCEPT !.in_trade = FALSE], b |-> br, comm |-> 0]
  ELSE [st |-> s, b |-> br, comm |-> 0]

\* ConsecutiveBearishBuyMarketStrategy.notify_order
BRNotifyResult(s, br, n) ==
  IF n.status = "Completed"
    THEN LET trade_value == Abs(n.size * n.price)
             commrate    == IF n.info = "maker" THEN MakerRate ELSE TakerRate
             commission  == Fee(trade_value, commrate)
             s1 == [s EXCEPT !.total_commission = @ + commission]
         IN  [st |-> IF n.isbuy
                       THEN [s1 EXCEPT !.buy_count = @ + 1]
                     ELSE [s1 EXCEPT !.sell_count = @ + 1,
                                     !.in_trade = FALSE],
              b  |-> SetCash(br, br.cash - commission),
              comm |-> commission]
  ELSE IF n.status \in {"Canceled", "Margin", "Rejected"}
    THEN [st |-> [s EXCEPT !.in_trade = FALSE], b |-> br, comm |-> 0]
  ELSE [st |-> s, b |-> br, comm |-> 0]

BRNotify ==
  /\ variant = "BR"
  /\ pc = "notify"
  /\ LET n == Head(notes)
         r == BRNotifyResult(st, broker, n) IN
       /\ st' = r.st
       /\ broker' = r.b
       /\ obs' = ObsFill(obs, n, r.comm)
  /\ notes' = Tail(notes)
  /\ pc' = IF Tail(notes) = <<>> THEN "next" ELSE "notify"
  /\ UNCHANGED <<variant, p, nbars, bar, prev, pending, core>>

\* the take-profit / stop-loss percentages of a run: the defaults, and a wide
\* pair under which a held position can see a falling or rising bar without
\* leaving
ExitPcts == {<<DefaultTakeProfitPct, DefaultStopLossPct>>, <<50, 0 - 50>>}

BRParams ==
  {[consecutive |-> c, take_profit_pct |-> x[1],
    stop_loss_pct |-> x[2], percent |-> pct, init_cash |-> InitCapital] :
     c \in {1, 2}, pct \in {50, 100}, x \in ExitPcts}

InitBR ==
  /\ variant = "BR"
  /\ p \in BRParams
  /\ pc = "bar"
  /\ nbars = 0
  /\ bar = NoBar
  /\ prev = NoBar
  /\ broker = Broker0(p.init_cash)
  /\ pending = <<>>
  /\ notes = <<>>
  /\ st = BRInit
  /\ core = NoCore
  /\ obs = Obs0

NextBR == BrokerNext \/ BRNotify \/ BRNext

SpecBR == InitBR /\ [][NextBR]_vars


\* --------------------------------------------------- str_wick.py (WICK)
WickInit ==
  [streak_count |-> 0, waiting |-> FALSE, open_trades |-> <<>>,
   buy_count |-> 0, sell_count |-> 0, total_commission |-> 0]

\* the exit reason of one open trade on bar b ("" when none)
WickExitReason(trade, b, pp) ==
  IF TakeProfitHit(b.high, trade.entry_price, pp.take_profit_pct) THEN "tp"
  ELSE IF StopLossHit(b.low, trade.entry_price, pp.stop_loss_pct) THEN "sl"
  ELSE ""

\* the loop over open_trades: sells submitted, trades kept
RECURSIVE WickExits(_, _, _)
WickExits(trades, b, pp) ==
  IF trades = <<>> THEN [orders |-> <<>>, keep |-> <<>>]
  ELSE LET t    == Head(trades)
           why  == WickExitReason(t, b, pp)
           rest == WickExits(Tail(trades), b, pp)
       IN  IF why # ""
             THEN [orders |-> SellOrders(t.size, b.close, why) \o rest.orders,
                   keep |-> rest.keep]
           ELSE [orders |-> rest.orders, keep |-> <<t>> \o rest.keep]

\* a next() whose streak goes on with an equal low as well
WickNextLowOrEqual(s, b, pb, br, pp) ==
  IF br.size # 0
    THEN LET x == WickExits(s.open_trades, b, pp) IN
         [st |-> [s EXCEPT !.open_trades = x.keep], orders |-> x.orders]
  ELSE IF ~s.waiting
    THEN LET streak == IF b.close < b.open
                         THEN IF s.streak_count = 0 THEN 1
                              ELSE IF b.low <= pb.low THEN s.streak_count + 1
                              ELSE 1
                       ELSE 0
         IN  [st |-> [s EXCEPT !.streak_count = streak,
                               !.waiting = (streak >= pp.consecutive)],
              orders |-> <<>>]
  ELSE IF b.close > b.open
    THEN [st |-> [s EXCEPT !.waiting = FALSE, !.streak_count = 0],
          orders |-> BuyOrders(FixedAmountSizer(br, pp.percent, b.close),
                               b.close, "entry")]
  ELSE [st |-> s, orders |-> <<>>]

\* str_wick ConsecutiveBearishBuyMarketStrategy.next
WickNextResult(s, b, pb, br, pp) ==
  IF br.size # 0
    THEN LET x == WickExits(s.open_trades, b, pp) IN
         [st |-> [s EXCEPT !.open_trades = x.keep], orders |-> x.orders]
  ELSE IF ~s.waiting
    THEN LET streak == IF b.close < b.open
                         THEN IF s.streak_count = 0 THEN 1
                              ELSE IF b.low < pb.low THEN s.streak_count + 1
                              ELSE 1
                       ELSE 0
         IN  [st |-> [s EXCEPT !.streak_count = streak,
                               !.waiting = (streak >= pp.consecutive)],
              orders |-> <<>>]
  ELSE IF b.close > b.open
    THEN [st |-> [s EXCEPT !.waiting = FALSE, !.streak_count = 0],
          orders |-> BuyOrders(FixedAmountSizer(br, pp.percent, b.close),
                               b.close, "entry")]
  ELSE [st |-> s, orders |-> <<>>]

WickNext ==
  /\ variant = "WICK"
  /\ pc = "next"
  /\ LET r == WickNextResult(st, bar, prev, broker, p) IN
       /\ st' = r.st
       /\ pending' = pending \o r.orders
       /\ obs' = [obs EXCEPT !.placed = r.orders, !.called = TRUE]
  /\ pc' = "bar"
  /\ UNCHANGED <<variant, p, nbars, bar, prev, broker, notes, core>>

\* str_wick ConsecutiveBearishBuyMarketStrategy.notify_order
WickNotifyResult(s, br, n) ==
  IF n.status = "Completed"
    THEN LET trade_value == Abs(n.size * n.price)
             commrate    == IF n.info = "maker" THEN WickMakerRate
                            ELSE WickTakerRate
             commission  == Fee(trade_value, commrate)
             s1 == [s EXCEPT !.total_commission = @ + commission]
         IN  [st |-> IF n.isbuy
                       THEN [s1 EXCEPT !.buy_count = @ + 1,
                                       !.open_trades = Append(@,
                                          [entry_price |-> n.price,
                                           size |-> n.size])]
                     ELSE [s1 EXCEPT !.sell_count = @ + 1],
              b |-> br, comm |-> commission]
  ELSE [st |-> s, b |-> br, comm |-> 0]

WickNotify ==
  /\ variant = "WICK"
  /\ pc = "notify"
  /\ LET n == Head(notes)
         r == WickNotifyResult(st, broker, n) IN
       /\ st' = r.st
       /\ broker' = r.b
       /\ obs' = ObsFill(obs, n, r.comm)
  /\ notes' = Tail(notes)
  /\ pc' = IF Tail(notes) = <<>> THEN "next" ELSE "notify"
  /\ UNCHANGED <<variant, p, nbars, bar, prev, pending, core>>

WickParams == {pp \in BRParams : pp.percent = 100}

InitWick ==
  /\ variant = "WICK"
  /\ p \in WickParams
  /\ pc = "bar"
  /\ nbars = 0
  /\ bar = NoBar
  /\ prev = NoBar
  /\ broker = Broker0(p.init_cash)
  /\ pending = <<>>
  /\ notes = <<>>
  /\ st = WickInit
  /\ core = NoCore
  /\ obs = Obs0

NextWick == BrokerNext \/ WickNotify \/ WickNext

SpecWick == InitWick /\ [][NextWick]_vars


\* ------------------------------------------------------ sma_core.py
RECURSIVE SumSeq(_)
SumSeq(q) == IF q = <<>> THEN 0 ELSE Head(q) + SumSeq(Tail(q))

\* prices[-n:]
LastN(q, n) ==
  IF n >= Len(q) THEN q ELSE SubSeq(q, Len(q) - n + 1, Len(q))

SmaCoreInit(short_period, long_period) ==
  [kind |-> "SmaCore", short_period |-> short_period,
   long_period |-> long_period, prices |-> <<>>, last_signal |-> None]

\* a comparison over the first prices, prices[:n], instead of the last
SmaCompareHead(q, short_period, long_period) ==
  LET lhs == SumSeq(SubSeq(q, 1, short_period)) * long_period
      rhs == SumSeq(SubSeq(q, 1, long_period)) * short_period
  IN  IF lhs > rhs THEN ">" ELSE IF lhs < rhs THEN "<" ELSE "="

\* a comparison whose long window ends one price early, prices[-n-1:-1]
SmaCompareLongLags(q, short_period, long_period) ==
  LET lhs == SumSeq(LastN(q, short_period)) * long_period
      rhs == SumSeq(LastN(SubSeq(q, 1, Len(q) - 1), long_period))
               * short_period
  IN  IF lhs > rhs THEN ">" ELSE IF lhs < rhs THEN "<" ELSE "="

\* short SMA against long SMA over the trailing windows of q:
\* sum(short)/short ? sum(long)/long, compared without dividing
SmaCompare(q, short_period, long_period) ==
  LET lhs == SumSeq(LastN(q, short_period)) * long_period
      rhs == SumSeq(LastN(q, long_period)) * short_period
  IN  IF lhs > rhs THEN ">" ELSE IF lhs < rhs THEN "<" ELSE "="

\* an update whose warm-up ends after short_period prices
SmaCoreUpdateShortWarmup(c, price) ==
  LET q == Append(c.prices, price)
      c1 == [c EXCEPT !.prices = q]
  IN  IF Len(q) < c.short_period
        THEN [core |-> c1, ret |-> None, cmp |-> None]
      ELSE LET cmp == SmaCompare(q, c.short_period, c.long_period)
               signal == IF cmp = ">" THEN "buy"
                         ELSE IF cmp = "<" THEN "sell" ELSE None
           IN  IF signal # c.last_signal
                 THEN [core |-> [c1 EXCEPT !.last_signal = signal],
                       ret |-> signal, cmp |-> cmp]
               ELSE [core |-> c1, ret |-> None, cmp |-> cmp]

\* an update that returns the signal of every bar
SmaCoreUpdateNoDedup(c, price) ==
  LET q == Append(c.prices, price)
      c1 == [c EXCEPT !.prices = q]
  IN  IF Len(q) < c.long_period
        THEN [core |-> c1, ret |-> None, cmp |-> None]
      ELSE LET cmp == SmaCompare(q, c.short_period, c.long_period)
               signal == IF cmp = ">" THEN "buy"
                         ELSE IF cmp = "<" THEN "sell" ELSE None
           IN  [core |-> [c1 EXCEPT !.last_signal = signal],
                ret |-> signal, cmp |-> cmp]

\* SmaCore.update: the engine after the call, the value returned and the
\* comparison made (None during warm-up)
SmaCoreUpdate(c, price) ==
  LET q == Append(c.prices, price)
      c1 == [c EXCEPT !.prices = q]
  IN  IF Len(q) < c.long_period
        THEN [core |-> c1, ret |-> None, cmp |-> None]
      ELSE LET cmp == SmaCompare(q, c.short_period, c.long_period)
               signal == IF cmp = ">" THEN "buy"
                         ELSE IF cmp = "<" THEN "sell" ELSE None
           IN  IF signal # c.last_signal
                 THEN [core |-> [c1 EXCEPT !.last_signal = signal],
                       ret |-> signal, cmp |-> cmp]
               ELSE [core |-> c1, ret |-> None, cmp |-> cmp]

\* --------------------------------------------------- reversal_core.py
\* take_profit_price and stop_loss_price are kept in 1/100 of a price unit
ReversalCoreInit(consecutive_bear_threshold, take_profit_pct, stop_loss_pct) ==
  [kind |-> "ReversalCore",
   consecutive_bear_threshold |-> consecutive_bear_threshold,
   take_profit_pct |-> take_profit_pct, stop_loss_pct |-> stop_loss_pct,
   bear_count |-> 0, triggered |-> FALSE, in_position |-> FALSE,
   buy_price |-> None, take_profit_price |-> None, stop_loss_price |-> None,
   last_signal |-> None]

\* a count that a bar with close >= open does not reset
ReversalCoreCountNoReset(c, candle) ==
  LET n == IF candle.close < candle.open THEN c.bear_count + 1
           ELSE c.bear_count
  IN  [core |-> [c EXCEPT !.bear_count = n,
                          !.triggered = (n >= c.consecutive_bear_threshold)],
       ret |-> None]

\* update, neither in position nor triggered: count the bearish bars
ReversalCoreCount(c, candle) ==
  LET n == IF candle.close < candle.open THEN c.bear_count + 1 ELSE 0
  IN  [core |-> [c EXCEPT !.bear_count = n,
                          !.triggered = (n >= c.consecutive_bear_threshold)],
       ret |-> None]

\* an entry that leaves bear_count as it is
ReversalCoreEnterKeepsCount(c, candle) ==
  IF candle.close > candle.open
    THEN LET c1 == [c EXCEPT
                      !.in_position = TRUE,
                      !.triggered = FALSE,
                      !.buy_price = candle.close,
                      !.take_profit_price =
                         candle.close * (100 + c.take_profit_pct),
                      !.stop_loss_price =
                         candle.close * (100 + c.stop_loss_pct)]
         IN  IF c.last_signal # "buy"
               THEN [core |-> [c1 EXCEPT !.last_signal = "buy"],
                     ret |-> "buy"]
             ELSE [core |-> c1, ret |-> None]
  ELSE [core |-> c, ret |-> None]

\* an entry whose stop-loss price takes the percentage with the wrong sign
ReversalCoreEnterSignSlip(c, candle) ==
  IF candle.close > candle.open
    THEN LET c1 == [c EXCEPT
                      !.in_position = TRUE,
                      !.triggered = FALSE, !.bear_count = 0,
                      !.buy_price = candle.close,
                      !.take_profit_price =
                         candle.close * (100 + c.take_profit_pct),
                      !.stop_loss_price =
                         candle.close * (100 - c.stop_loss_pct)]
         IN  IF c.last_signal # "buy"
               THEN [core |-> [c1 EXCEPT !.last_signal = "buy"],
                     ret |-> "buy"]
             ELSE [core |-> c1, ret |-> None]
  ELSE [core |-> c, ret |-> None]

\* an entry that takes a bar with close = open for a bullish one
ReversalCoreEnterOnDoji(c, candle) ==
  IF candle.close >= candle.open
    THEN LET c1 == [c EXCEPT
                      !.in_position = TRUE,
                      !.triggered = FALSE, !.bear_count = 0,
                      !.buy_price = candle.close,
                      !.take_profit_price =
                         candle.close * (100 + c.take_profit_pct),
                      !.stop_loss_price =
                         candle.close * (100 + c.stop_loss_pct)]
         IN  IF c.last_signal # "buy"
               THEN [core |-> [c1 EXCEPT !.last_signal = "buy"],
                     ret |-> "buy"]
             ELSE [core |-> c1, ret |-> None]
  ELSE [core |-> c, ret |-> None]

\* update, triggered: wait for the first bullish bar and enter on it
ReversalCoreEnter(c, candle) ==
  IF candle.close > candle.open
    THEN LET c1 == [c EXCEPT
                      !.in_position = TRUE,
                      !.triggered = FALSE, !.bear_count = 0,
                      !.buy_price = candle.close,
                      !.take_profit_price =
                         candle.close * (100 + c.take_profit_pct),
                      !.stop_loss_price =
                         candle.close * (100 + c.stop_loss_pct)]
         IN  IF c.last_signal # "buy"
               THEN [core |-> [c1 EXCEPT !.last_signal = "buy"],
                     ret |-> "buy"]
             ELSE [core |-> c1, ret |-> None]
  ELSE [core |-> c, ret |-> None]

\* an exit that returns 'sell' without recording it in last_signal
ReversalCoreExitForgetsSignal(c, candle) ==
  IF \/ candle.high * 100 >= c.take_profit_price
     \/ candle.low * 100 <= c.stop_loss_price
    THEN LET c1 == [c EXCEPT !.in_position = FALSE, !.buy_price = None,
                             !.take_profit_price = None,
                             !.stop_loss_price = None,
                             !.bear_count = 0, !.triggered = FALSE]
         IN  IF c.last_signal # "sell"
               THEN [core |-> c1, ret |-> "sell"]
             ELSE [core |-> c1, ret |-> None]
  ELSE [core |-> c, ret |-> None]

\* an exit that looks at the stop-loss price only
ReversalCoreExitStopOnly(c, candle) ==
  IF candle.low * 100 <= c.stop_loss_price
    THEN LET c1 == [c EXCEPT !.in_position = FALSE, !.buy_price = None,
                             !.take_profit_price = None,
                             !.stop_loss_price = None,
                             !.bear_count = 0, !.triggered = FALSE]
         IN  IF c.last_signal # "sell"
               THEN [core |-> [c1 EXCEPT !.last_signal = "sell"],
                     ret |-> "sell"]
             ELSE [core |-> c1, ret |-> None]
  ELSE [core |-> c, ret |-> None]

\* an exit that needs the high above, or the low below, the threshold
ReversalCoreExitStrict(c, candle) ==
  IF \/ candle.high * 100 > c.take_profit_price
     \/ candle.low * 100 < c.stop_loss_price
    THEN LET c1 == [c EXCEPT !.in_position = FALSE, !.buy_price = None,
                             !.take_profit_price = None,
                             !.stop_loss_price = None,
                             !.bear_count = 0, !.triggered = FALSE]
         IN  IF c.last_signal # "sell"
               THEN [core |-> [c1 EXCEPT !.last_signal = "sell"],
                     ret |-> "sell"]
             ELSE [core |-> c1, ret |-> None]
  ELSE [core |-> c, ret |-> None]

\* update, in position: leave on the take-profit or the stop-loss price
ReversalCoreExit(c, candle) ==
  IF \/ candle.high * 100 >= c.take_profit_price
     \/ candle.low * 100 <= c.stop_loss_price
    THEN LET c1 == [c EXCEPT !.in_position = FALSE, !.buy_price = None,
                             !.take_profit_price = None,
                             !.stop_loss_price = None,
                             !.bear_count = 0, !.triggered = FALSE]
         IN  IF c.last_signal # "sell"
               THEN [core |-> [c1 EXCEPT !.last_signal = "sell"],
                     ret |-> "sell"]
             ELSE [core |-> c1, ret |-> None]
  ELSE [core |-> c, ret |-> None]

\* ReversalCore.update: the engine after the call and the value returned
ReversalCoreUpdate(c, candle) ==
  IF ~c.in_position
    THEN IF ~c.triggered THEN ReversalCoreCount(c, candle)
         ELSE ReversalCoreEnter(c, candle)
  ELSE ReversalCoreExit(c, candle)

\* ------------------------- sma_strategy_bt.py / reversal_strategy_bt.py
\* fields of SmaCoreStrategy and of ReversalCoreStrategy; order is TRUE
\* while self.order holds an order object
BtInit(initial_capital) ==
  [order |-> FALSE, initial_capital |-> initial_capital, buy_count |-> 0,
   sell_count |-> 0, total_fee_usdt |-> 0]

\* order handling that buys on a buy signal whatever the position
BtNextNoPositionCheck(s, signal, b, br, pp) ==
  IF s.order THEN [st |-> s, orders |-> <<>>]
  ELSE IF signal = "buy"
    THEN LET buy_amount == (s.initial_capital * pp.buy_pct) \div 100
         IN  IF br.cash >= buy_amount
               THEN LET os == BuyOrders(buy_amount \div b.close, b.close, "")
                    IN  [st |-> [s EXCEPT !.order = (os # <<>>)],
                         orders |-> os]
             ELSE [st |-> s, orders |-> <<>>]
  ELSE IF signal = "sell"
    THEN IF br.size # 0
           THEN LET os == CloseOrders(br, b.close, "")
                IN  [st |-> [s EXCEPT !.order = (os # <<>>)], orders |-> os]
         ELSE [st |-> s, orders |-> <<>>]
  ELSE [st |-> s, orders |-> <<>>]

\* order handling that buys on a buy signal whatever the cash
BtNextNoCashCheck(s, signal, b, br, pp) ==
  IF s.order THEN [st |-> s, orders |-> <<>>]
  ELSE IF signal = "buy"
    THEN IF br.size = 0
           THEN LET buy_amount == (s.initial_capital * pp.buy_pct) \div 100
                    os == BuyOrders(buy_amount \div b.close, b.close, "")
                IN  [st |-> [s EXCEPT !.order = (os # <<>>)], orders |-> os]
         ELSE [st |-> s, orders |-> <<>>]
  ELSE IF signal = "sell"
    THEN IF br.size # 0
           THEN LET os == CloseOrders(br, b.close, "")
                IN  [st |-> [s EXCEPT !.order = (os # <<>>)], orders |-> os]
         ELSE [st |-> s, orders |-> <<>>]
  ELSE [st |-> s, orders |-> <<>>]

\* order handling that sells on a sell signal whatever the position
BtNextSellsFlat(s, signal, b, br, pp) ==
  IF s.order THEN [st |-> s, orders |-> <<>>]
  ELSE IF signal = "buy"
    THEN IF br.size = 0
           THEN LET buy_amount == (s.initial_capital * pp.buy_pct) \div 100
                IN  IF br.cash >= buy_amount
                      THEN LET os == BuyOrders(buy_amount \div b.close,
                                               b.close, "")
                           IN  [st |-> [s EXCEPT !.order = (os # <<>>)],
                                orders |-> os]
                    ELSE [st |-> s, orders |-> <<>>]
         ELSE [st |-> s, orders |-> <<>>]
  ELSE IF signal = "sell"
    THEN LET buy_amount == (s.initial_capital * pp.buy_pct) \div 100
             os == SellOrders(IF br.size # 0 THEN br.size
                              ELSE buy_amount \div b.close, b.close, "")
         IN  [st |-> [s EXCEPT !.order = (os # <<>>)], orders |-> os]
  ELSE [st |-> s, orders |-> <<>>]

\* the order handling of SmaCoreStrategy.next and ReversalCoreStrategy.next
\* once the signal is known; buy_pct is in percent (30 for 0.3)
BtNextResult(s, signal, b, br, pp) ==
  IF s.order THEN [st |-> s, orders |-> <<>>]
  ELSE IF signal = "buy"
    THEN IF br.size = 0
           THEN LET available_cash == br.cash
                    buy_amount == (s.initial_capital * pp.buy_pct) \div 100
                IN  IF available_cash >= buy_amount
                      THEN LET os == BuyOrders(buy_amount \div b.close,
                                               b.close, "")
                           IN  [st |-> [s EXCEPT !.order = (os # <<>>)],
                                orders |-> os]
                    ELSE [st |-> s, orders |-> <<>>]
         ELSE [st |-> s, orders |-> <<>>]
  ELSE IF signal = "sell"
    THEN IF br.size # 0
           THEN LET os == CloseOrders(br, b.close, "")
                IN  [st |-> [s EXCEPT !.order = (os # <<>>)], orders |-> os]
         ELSE [st |-> s, orders |-> <<>>]
  ELSE [st |-> s, orders |-> <<>>]

\* SmaCoreStrategy.notify_order and ReversalCoreStrategy.notify_order
BtNotifyResult(s, br, n) ==
  IF n.status = "Completed"
    THEN IF n.isbuy
           THEN LET fee_btc  == (TakerRate * n.size) \div RateDen
                    fee_usdt == fee_btc * n.price
                IN  [st |-> [s EXCEPT !.total_fee_usdt = @ + fee_usdt,
                                      !.buy_count = @ + 1,
                                      !.order = FALSE],
                     b |-> br, comm |-> fee_usdt]
         ELSE LET trade_value == n.price * n.size
                  fee_usdt    == (MakerRate * trade_value) \div RateDen
              IN  [st |-> [s EXCEPT !.total_fee_usdt = @ + fee_usdt,
                                    !.sell_count = @ + 1,
                                    !.order = FALSE],
                   b |-> br, comm |-> fee_usdt]
  ELSE IF n.status \in {"Canceled", "Margin", "Rejected"}
    THEN [st |-> [s EXCEPT !.order = FALSE], b |-> br, comm |-> 0]
  ELSE [st |-> s, b |-> br, comm |-> 0]

BtNotify ==
  /\ variant \in {"SMABT", "REVBT"}
  /\ pc = "notify"
  /\ LET n == Head(notes)
         r == BtNotifyResult(st, broker, n) IN
       /\ st' = r.st
       /\ broker' = r.b
       /\ obs' = ObsFill(obs, n, r.comm)
  /\ notes' = Tail(notes)
  /\ pc' = IF Tail(notes) = <<>> THEN "next" ELSE "notify"
  /\ UNCHANGED <<variant, p, nbars, bar, prev, pending, core>>

\* SmaCoreStrategy.next; before long_period bars the run loop calls
\* prenext instead (the two SMA indicators of __init__ set the minimum
\* period)
SmaBtNext ==
  /\ variant = "SMABT"
  /\ pc = "next"
  /\ IF nbars < p.long_period
       THEN UNCHANGED <<st, core, pending, obs>>
     ELSE LET u == SmaCoreUpdate(core, bar.close)
              r == BtNextResult(st, u.ret, bar, broker, p) IN
          /\ core' = u.core
          /\ st' = r.st
          /\ pending' = pending \o r.orders
          /\ obs' = [obs EXCEPT !.placed = r.orders, !.called = TRUE,
                                !.signal = u.ret, !.cmp = u.cmp,
                                !.prevcmp = obs.cmp]
  /\ pc' = "bar"
  /\ UNCHANGED <<variant, p, nbars, bar, prev, broker, notes>>

\* ReversalCoreStrategy.next
RevBtNext ==
  /\ variant = "REVBT"
  /\ pc = "next"
  /\ LET u == ReversalCoreUpdate(core, bar)
         r == BtNextResult(st, u.ret, bar, broker, p) IN
       /\ core' = u.core
       /\ st' = r.st
       /\ pending' = pending \o r.orders
       /\ obs' = [obs EXCEPT !.placed = r.orders, !.called = TRUE,
                             !.signal = u.ret]
  /\ pc' = "bar"
  /\ UNCHANGED <<variant, p, nbars, bar, prev, broker, notes>>

SmaBtParams ==
  {[short_period |-> 1, long_period |-> 2, buy_pct |-> pct,
    init_cash |-> InitCapital] : pct \in {30, 100}}

InitSmaBt ==
  /\ variant = "SMABT"
  /\ p \in SmaBtParams
  /\ pc = "bar"
  /\ nbars = 0
  /\ bar = NoBar
  /\ prev = NoBar
  /\ broker = Broker0(p.init_cash)
  /\ pending = <<>>
  /\ notes = <<>>
  /\ st = BtInit(p.init_cash)
  /\ core = SmaCoreInit(p.short_period, p.long_period)
  /\ obs = Obs0

NextSmaBt == BrokerNext \/ BtNotify \/ SmaBtNext

SpecSmaBt == InitSmaBt /\ [][NextSmaBt]_vars

RevBtParams ==
  {[consecutive_bear_threshold |-> c,
    take_profit_pct |-> DefaultTakeProfitPct,
    stop_loss_pct |-> DefaultStopLossPct, buy_pct |-> pct,
    init_cash |-> InitCapital] : c \in {1, 2}, pct \in {30, 100}}

InitRevBt ==
  /\ variant = "REVBT"
  /\ p \in RevBtParams
  /\ pc = "bar"
  /\ nbars = 0
  /\ bar = NoBar
  /\ prev = NoBar
  /\ broker = Broker0(p.init_cash)
  /\ pending = <<>>
  /\ notes = <<>>
  /\ st = BtInit(p.init_cash)
  /\ core = ReversalCoreInit(p.consecutive_bear_threshold,
                             p.take_profit_pct, p.stop_loss_pct)
  /\ obs = Obs0

NextRevBt == BrokerNext \/ BtNotify \/ RevBtNext

SpecRevBt == InitRevBt /\ [][NextRevBt]_vars


\* ------------------------------------------------------ sma_strategy.py
\* FractionalSizer._getsizing
FractionalSizer(b, percents, close, isbuy) ==
  IF isbuy THEN ((b.cash * percents) \div 100) \div close
  ELSE b.size

\* the closes seen by the SMA indicators of SMAStrategy.__init__
IndicatorsInit(short_period, long_period) ==
  [kind |-> "Indicators", short_period |-> short_period,
   long_period |-> long_period, prices |-> <<>>]

\* sign of sma_short - sma_long on the last bar of q
SmaDiff(q, short_period, long_period) ==
  SumSeq(LastN(q, short_period)) * long_period
    - SumSeq(LastN(q, long_period)) * short_period

Front(q) == SubSeq(q, 1, Len(q) - 1)

\* the last non-zero difference, seeded on the first bar with both averages
RECURSIVE NonZeroDiff(_, _, _)
NonZeroDiff(q, short_period, long_period) ==
  LET d == SmaDiff(q, short_period, long_period) IN
  IF Len(q) <= long_period \/ d # 0 THEN d
  ELSE NonZeroDiff(Front(q), short_period, long_period)

\* bt.indicators.CrossOver(sma_short, sma_long) on the last bar of q:
\* 1 on an upward cross, -1 on a downward cross, else 0
CrossOver(q, short_period, long_period) ==
  LET before == NonZeroDiff(Front(q), short_period, long_period)
      d      == SmaDiff(q, short_period, long_period)
  IN  IF before < 0 /\ d > 0 THEN 1
      ELSE IF before > 0 /\ d < 0 THEN 0 - 1
      ELSE 0

SmaInit ==
  [order |-> FALSE, buy_count |-> 0, sell_count |-> 0,
   total_commission |-> 0]

\* SMAStrategy.next
SmaNextResult(s, crossover, b, br, pp) ==
  IF s.order THEN [st |-> s, orders |-> <<>>]
  ELSE IF br.size = 0
    THEN IF crossover > 0
           THEN LET os == BuyOrders(
                            FractionalSizer(br, pp.percent, b.close, TRUE),
                            b.close, "taker")
                IN  [st |-> [s EXCEPT !.order = (os # <<>>)], orders |-> os]
         ELSE [st |-> s, orders |-> <<>>]
  ELSE IF crossover < 0
    THEN LET os == CloseOrders(br, b.close, "taker")
         IN  [st |-> [s EXCEPT !.order = (os # <<>>)], orders |-> os]
  ELSE [st |-> s, orders |-> <<>>]

\* SMAStrategy.next, called once CrossOver has a value (long_period + 1
\* bars); the indicators read every close
SmaNext ==
  /\ variant = "SMA"
  /\ pc = "next"
  /\ LET q == Append(core.prices, bar.close) IN
       /\ core' = [core EXCEPT !.prices = q]
       /\ IF nbars <= p.long_period
            THEN UNCHANGED <<st, pending, obs>>
          ELSE LET x == CrossOver(q, p.short_period, p.long_period)
                   r == SmaNextResult(st, x, bar, broker, p) IN
               /\ st' = r.st
               /\ pending' = pending \o r.orders
               /\ obs' = [obs EXCEPT !.placed = r.orders, !.called = TRUE,
                                     !.signal = x]
  /\ pc' = "bar"
  /\ UNCHANGED <<variant, p, nbars, bar, prev, broker, notes>>

\* a notify_order that books the fee without taking it from the cash
SmaNotifyKeepsCash(s, br, n) ==
  IF n.status = "Completed"
    THEN LET trade_value == Abs(n.size * n.price)
             commrate    == IF n.info = "maker" THEN MakerRate ELSE TakerRate
             commission  == Fee(trade_value, commrate)
             s1 == [s EXCEPT !.total_commission = @ + commission,
                             !.order = FALSE]
         IN  [st |-> IF n.isbuy THEN [s1 EXCEPT !.buy_count = @ + 1]
                     ELSE [s1 EXCEPT !.sell_count = @ + 1],
              b |-> br,
              comm |-> commission]
  ELSE [st |-> [s EXCEPT !.order = FALSE], b |-> br, comm |-> 0]

\* a notify_order that counts a sell for every notification of a sell order
SmaNotifyCountsAll(s, br, n) ==
  IF n.status = "Completed"
    THEN LET trade_value == Abs(n.size * n.price)
             commrate    == IF n.info = "maker" THEN MakerRate ELSE TakerRate
             commission  == Fee(trade_value, commrate)
             s1 == [s EXCEPT !.total_commission = @ + commission,
                             !.order = FALSE]
         IN  [st |-> IF n.isbuy THEN [s1 EXCEPT !.buy_count = @ + 1]
                     ELSE [s1 EXCEPT !.sell_count = @ + 1],
              b |-> SetCash(br, br.cash - commission),
              comm |-> commission]
  ELSE [st |-> IF n.isbuy THEN [s EXCEPT !.order = FALSE]
               ELSE [s EXCEPT !.order = FALSE, !.sell_count = @ + 1],
        b |-> br, comm |-> 0]

\* SMAStrategy.notify_order
SmaNotifyResult(s, br, n) ==
  IF n.status = "Completed"
    THEN LET trade_value == Abs(n.size * n.price)
             commrate    == IF n.info = "maker" THEN MakerRate ELSE TakerRate
             commission  == Fee(trade_value, commrate)
             s1 == [s EXCEPT !.total_commission = @ + commission,
                             !.order = FALSE]
         IN  [st |-> IF n.isbuy THEN [s1 EXCEPT !.buy_count = @ + 1]
                     ELSE [s1 EXCEPT !.sell_count = @ + 1],
              b |-> SetCash(br, br.cash - commission),
              comm |-> commission]
  ELSE [st |-> [s EXCEPT !.order = FALSE], b |-> br, comm |-> 0]

SmaNotify ==
  /\ variant = "SMA"
  /\ pc = "notify"
  /\ LET n == Head(notes)
         r == SmaNotifyResult(st, broker, n) IN
       /\ st' = r.st
       /\ broker' = r.b
       /\ obs' = ObsFill(obs, n, r.comm)
  /\ notes' = Tail(notes)
  /\ pc' = IF Tail(notes) = <<>> THEN "next" ELSE "notify"
  /\ UNCHANGED <<variant, p, nbars, bar, prev, pending, core>>

SmaParams ==
  {[short_period |-> 1, long_period |-> 2, percent |-> pct,
    init_cash |-> InitCapital] : pct \in {50, 100}}

InitSma ==
  /\ variant = "SMA"
  /\ p \in SmaParams
  /\ pc = "bar"
  /\ nbars = 0
  /\ bar = NoBar
  /\ prev = NoBar
  /\ broker = Broker0(p.init_cash)
  /\ pending = <<>>
  /\ notes = <<>>
  /\ st = SmaInit
  /\ core = IndicatorsInit(p.short_period, p.long_period)
  /\ obs = Obs0

NextSma == BrokerNext \/ SmaNotify \/ SmaNext

SpecSma == InitSma /\ [][NextSma]_vars

\* ----------------------------------------------- SmaCore on its own
\* one SmaCore instance fed a price sequence
PeriodPairs ==
  {<<1, 2>>, <<2, 3>>, <<1, 3>>, <<1, 1>>, <<2, 2>>, <<3, 3>>}

InitSmaCore ==
  /\ variant = "SmaCore"
  /\ \E pr \in PeriodPairs :
       /\ p = [short_period |-> pr[1], long_period |-> pr[2]]
       /\ core = SmaCoreInit(pr[1], pr[2])
  /\ pc = "update"
  /\ nbars = 0
  /\ bar = NoBar
  /\ prev = NoBar
  /\ broker = Broker0(0)
  /\ pending = <<>>
  /\ notes = <<>>
  /\ st = None
  /\ obs = Obs0

\* one call of SmaCore.update
SmaCoreCall ==
  /\ variant = "SmaCore"
  /\ nbars < MaxBars
  /\ \E price \in Prices :
       LET u == SmaCoreUpdate(core, price) IN
       /\ core' = u.core
       /\ obs' = [obs EXCEPT !.signal = u.ret, !.cmp = u.cmp,
                             !.prevcmp = obs.cmp, !.called = TRUE,
                             !.emitted = IF u.ret = None THEN @ ELSE u.ret,
                             !.pre = core]
  /\ nbars' = nbars + 1
  /\ UNCHANGED <<variant, p, pc, bar, prev, broker, pending, notes, st>>

NextSmaCore == SmaCoreCall

SpecSmaCore == InitSmaCore /\ [][NextSmaCore]_vars

\* ------------------------------------------- reversal_core.py, alone
\* the candles of the module's own run
test_candles ==
  << [open |-> 100, high |-> 100, low |-> 99, close |-> 99],
     [open |-> 99, high |-> 99, low |-> 98, close |-> 98],
     [open |-> 98, high |-> 98, low |-> 97, close |-> 97],
     [open |-> 97, high |-> 98, low |-> 97, close |-> 98],
     [open |-> 98, high |-> 101, low |-> 98, close |-> 100],
     [open |-> 100, high |-> 102, low |-> 97, close |-> 97] >>

\* feed "any": update is called with any bar; feed "demo": with test_candles
RevCoreParams ==
  {[consecutive_bear_threshold |-> c, take_profit_pct |-> x[1],
    stop_loss_pct |-> x[2], feed |-> "any"] :
      c \in {1, 2, 3}, x \in ExitPcts}
  \cup {[consecutive_bear_threshold |-> 3,
          take_profit_pct |-> DefaultTakeProfitPct,
          stop_loss_pct |-> DefaultStopLossPct, feed |-> "demo"]}

\* the candles the next call of update can get
RevCoreFeed ==
  IF p.feed = "demo"
    THEN IF nbars < Len(test_candles) THEN {test_candles[nbars + 1]} ELSE {}
  ELSE Bars

InitRevCore ==
  /\ variant = "RevCore"
  /\ p \in RevCoreParams
  /\ core = ReversalCoreInit(p.consecutive_bear_threshold,
                             p.take_profit_pct, p.stop_loss_pct)
  /\ pc = "update"
  /\ nbars = 0
  /\ bar = NoBar
  /\ prev = NoBar
  /\ broker = Broker0(0)
  /\ pending = <<>>
  /\ notes = <<>>
  /\ st = None
  /\ obs = Obs0

\* one call of ReversalCore.update
RevCoreCall ==
  /\ variant = "RevCore"
  /\ nbars < MaxBars
  /\ \E candle \in RevCoreFeed :
       LET u == ReversalCoreUpdate(core, candle) IN
       /\ core' = u.core
       /\ bar' = candle
       /\ obs' = [obs EXCEPT !.signal = u.ret, !.called = TRUE,
                             !.emitted = IF u.ret = None THEN @ ELSE u.ret,
                             !.pre = core]
  /\ prev' = bar
  /\ nbars' = nbars + 1
  /\ UNCHANGED <<variant, p, pc, broker, pending, notes, st>>

NextRevCore == RevCoreCall

SpecRevCore == InitRevCore /\ [][NextRevCore]_vars

\* ------------------- ReversalCore and bearish_reversal, side by side
\* one ReversalCore and one ConsecutiveBearishBuyMarketStrategy with the same
\* threshold, given the same bars until they have entered
InitBoth ==
  /\ variant = "Both"
  /\ p \in {[consecutive |-> c, take_profit_pct |-> x[1],
             stop_loss_pct |-> x[2], percent |-> 100,
             init_cash |-> InitCapital] : c \in {1, 2, 3}, x \in ExitPcts}
  /\ core = ReversalCoreInit(p.consecutive, p.take_profit_pct,
                             p.stop_loss_pct)
  /\ st = BRInit
  /\ broker = Broker0(p.init_cash)
  /\ pc = "next"
  /\ nbars = 0
  /\ bar = NoBar
  /\ prev = NoBar
  /\ pending = <<>>
  /\ notes = <<>>
  /\ obs = Obs0

\* one bar: ReversalCore.update and the strategy's next() on the same candle
BothCall ==
  /\ variant = "Both"
  /\ nbars < MaxBars
  /\ ~core.in_position /\ ~st.in_trade
  /\ \E candle \in Bars :
       LET u == ReversalCoreUpdate(core, candle)
           r == BRNextResult(st, candle, broker, p) IN
       /\ core' = u.core
       /\ st' = r.st
       /\ bar' = candle
       /\ pending' = pending \o r.orders
       /\ obs' = [obs EXCEPT !.signal = u.ret, !.placed = r.orders,
                             !.called = TRUE, !.pre = core]
  /\ prev' = bar
  /\ nbars' = nbars + 1
  /\ UNCHANGED <<variant, p, pc, broker, notes>>

NextBoth == BothCall

SpecBoth == InitBoth /\ [][NextBoth]_vars

\* ------------------------------------------------ the sizers, alone
\* cash at hand and starting cash a sizer is called with
SizerCash == {0, 1, 999, 300 * Scale, 500 * Scale, InitCapital}
SizerPercents == {0, 30, 50, 100}
\* data.close[0] at the call, the prices a sound feed never has included
SizerCloses == Prices \cup {0, 0 - 1}

\* a call of _getsizing: the exception it ends with (None if it returns)
\* and the size it returns; a float division by 0 raises ZeroDivisionError
GetSizing(sizer, b, percent, close, isbuy) ==
  IF sizer = "Fixed"
    THEN IF close = 0
           THEN [raised |-> "ZeroDivisionError", size |-> None]
         ELSE [raised |-> None, size |-> FixedAmountSizer(b, percent, close)]
  ELSE IF isbuy /\ close = 0
    THEN [raised |-> "ZeroDivisionError", size |-> None]
  ELSE [raised |-> None, size |-> FractionalSizer(b, percent, close, isbuy)]

InitSizer ==
  /\ variant = "Sizer"
  /\ p \in [sizer : {"Fixed", "Fractional"}, percent : SizerPercents]
  /\ broker \in [cash : SizerCash, startingcash : SizerCash,
                  size : {0, Scale}, price : {0}]
  /\ pc = "size"
  /\ nbars = 0
  /\ bar = NoBar
  /\ prev = NoBar
  /\ pending = <<>>
  /\ notes = <<>>
  /\ st = None
  /\ core = NoCore
  /\ obs = Obs0

\* one call of the sizer; st keeps the arguments and the outcome
SizerCall ==
  /\ variant = "Sizer"
  /\ pc = "size"
  /\ \E close \in SizerCloses, isbuy \in BOOLEAN :
       LET r == GetSizing(p.sizer, broker, p.percent, close, isbuy) IN
       st' = [close |-> close, isbuy |-> isbuy,
              raised |-> r.raised, size |-> r.size]
  /\ pc' = "sized"
  /\ UNCHANGED <<variant, p, nbars, bar, prev, broker, pending, notes,
                 core, obs>>

NextSizer == SizerCall

SpecSizer == InitSizer /\ [][NextSizer]_vars

\* ------------------------------------------------------ every variant
\* ------------------------------------------------------------ grid sweeps
\* the caller's bar data as the single runs see it: where 'datetime' is (a
\* column, the index, or nowhere) and the dtype it has
DataForms ==
  {[where |-> "column", dtype |-> "str"],
   [where |-> "column", dtype |-> "datetime64"],
   [where |-> "index", dtype |-> "datetime64"],
   [where |-> "none", dtype |-> "none"]}

LoadedData == [where |-> "index", dtype |-> "datetime64"]

\* the data handling of run_sma_backtest and BacktraderEngine.run_strategy:
\* reset_index() works on a copy, to_datetime and set_index(inplace=True) on
\* the frame it is given
PrepareData(data) ==
  IF data.where = "column"
    THEN [raised |-> None,
          data |-> [where |-> "index", dtype |-> "datetime64"]]
  ELSE IF data.where = "index" THEN [raised |-> None, data |-> data]
  ELSE [raised |-> "KeyError", data |-> data]

\* profit_rate = (profit / init_cash) * 100.0
ProfitRate(init_cash) ==
  IF init_cash = 0 THEN "ZeroDivisionError" ELSE None

SmaRunners == {"run_sma_backtest_multi", "run_backtest_combinations", "main"}

\* the nested loops of a sweep, outermost first: the sequence of the
\* combinations visited. first, second: short_period, long_period of the SMA
\* runners; tp_pct, sl_pct of the reversal runners
SweepCombinations(q) ==
  LET n2 == Len(q.percents)
      n3 == Len(q.consecutives)
      n4 == Len(q.firsts)
      n5 == Len(q.seconds)
      n  == Len(q.init_cashes) * n2 * n3 * n4 * n5
  IN  [k \in 1..n |->
         LET j == k - 1 IN
         [init_cash   |-> q.init_cashes[(j \div (n2 * n3 * n4 * n5)) + 1],
          percent     |-> q.percents[((j \div (n3 * n4 * n5)) % n2) + 1],
          consecutive |-> q.consecutives[((j \div (n4 * n5)) % n3) + 1],
          first       |-> q.firsts[((j \div n5) % n4) + 1],
          second      |-> q.seconds[(j % n5) + 1]]]

\* a filter that lets short_period = long_period through
SkippedOnlyAbove(runner, c) ==
  IF runner \in {"run_sma_backtest_multi", "run_backtest_combinations"}
    THEN c.first > c.second
  ELSE IF runner = "main" THEN ~(c.first < c.second)
  ELSE IF runner = "run_bearish_reversal_backtest_multi"
    THEN c.first <= 0 \/ c.second >= 0
  ELSE FALSE

\* the test at the head of the loop body: TRUE when the combination is
\* skipped
Skipped(runner, c) ==
  IF runner \in {"run_sma_backtest_multi", "run_backtest_combinations"}
    THEN c.first >= c.second
  ELSE IF runner = "main" THEN ~(c.first < c.second)
  ELSE IF runner = "run_bearish_reversal_backtest_multi"
    THEN c.first <= 0 \/ c.second >= 0
  ELSE FALSE

\* one single run of a sweep: the error it ends in, if any, and the caller's
\* data after it
SingleRun(runner, c, data) ==
  IF runner \in {"run_sma_backtest_multi",
                 "run_bearish_reversal_backtest_multi"}
    THEN LET d == PrepareData(data) IN
         IF d.raised # None THEN d
         ELSE [raised |-> ProfitRate(c.init_cash), data |-> d.data]
  ELSE [raised |-> ProfitRate(c.init_cash), data |-> data]

\* the argument lists of the sweeps: those of main.py and of
\* reversal_strategy_bt.py are the lists written in the files
SweepParams ==
  LET InitCashLists ==
        {<<InitCapital>>, <<0, InitCapital>>, <<InitCapital, 0>>}
      ShortLists == {<<1, 2>>, <<2, 3>>}
      LongLists == {<<2>>, <<1, 3>>}
      TpLists == {<<3>>, <<0, 3>>, <<3, 0 - 1>>}
      SlLists == {<<0 - 2>>, <<0 - 2, 0>>, <<1, 0 - 2>>}
  IN
  [runner : {"run_sma_backtest_multi"}, data : DataForms,
   init_cashes : InitCashLists, percents : {<<50, 100>>},
   consecutives : {<<0>>}, firsts : ShortLists, seconds : LongLists]
  \cup
  [runner : {"run_backtest_combinations"}, data : {LoadedData},
   init_cashes : InitCashLists, percents : {<<50, 100>>},
   consecutives : {<<0>>}, firsts : ShortLists, seconds : LongLists]
  \cup
  [runner : {"main"}, data : {LoadedData},
   init_cashes : {<<10 * InitCapital>>}, percents : {<<80>>},
   consecutives : {<<0>>}, firsts : {<<5, 10, 20, 60>>},
   seconds : {<<60, 120, 240>>}]
  \cup
  [runner : {"run_bearish_reversal_backtest_multi"}, data : DataForms,
   init_cashes : InitCashLists, percents : {<<100>>},
   consecutives : {<<1, 2>>}, firsts : TpLists, seconds : SlLists]
  \cup
  [runner : {"run_backtest_multi"}, data : {LoadedData},
   init_cashes : InitCashLists, percents : {<<100>>},
   consecutives : {<<1, 2>>}, firsts : TpLists, seconds : SlLists]
  \cup
  [runner : {"RUN_MULTI_BT"}, data : {LoadedData},
   init_cashes : {<<InitCapital>>}, percents : {<<10>>},
   consecutives : {<<2, 3, 4, 5, 6, 7>>}, firsts : {<<1, 2, 3, 4, 5, 6>>},
   seconds : {<<0 - 1, 0 - 2, 0 - 3, 0 - 4, 0 - 5, 0 - 6>>}]

\* st: i is the combination the loops are at, results the rows appended,
\* runs the combinations a single run was started for, seen the data each of
\* them was handed, data the caller's frame, raised the error that left
\* the sweep
InitSweep ==
  /\ variant = "Sweep"
  /\ p \in SweepParams
  /\ pc = "loop"
  /\ st = [i |-> 1, results |-> <<>>, runs |-> <<>>, seen |-> <<>>,
           data |-> p.data, raised |-> None]
  /\ nbars = 0
  /\ bar = NoBar
  /\ prev = NoBar
  /\ broker = Broker0(0)
  /\ pending = <<>>
  /\ notes = <<>>
  /\ core = NoCore
  /\ obs = Obs0

SweepFrame ==
  UNCHANGED <<variant, p, nbars, bar, prev, broker, pending, notes, core, obs>>

\* the loop body at a combination the filter rejects: continue
SweepSkip ==
  /\ variant = "Sweep" /\ pc = "loop"
  /\ st.i <= Len(SweepCombinations(p))
  /\ Skipped(p.runner, SweepCombinations(p)[st.i])
  /\ st' = [st EXCEPT !.i = @ + 1]
  /\ pc' = pc
  /\ SweepFrame

\* the loop body at a combination that is run and returns its result
SweepRun ==
  /\ variant = "Sweep" /\ pc = "loop"
  /\ st.i <= Len(SweepCombinations(p))
  /\ LET c == SweepCombinations(p)[st.i]
         r == SingleRun(p.runner, c, st.data)
     IN  /\ ~Skipped(p.runner, c)
         /\ r.raised = None
         /\ st' = [st EXCEPT !.i = @ + 1,
                             !.results = Append(@, c),
                             !.runs = Append(@, c),
                             !.seen = Append(@, st.data),
                             !.data = r.data]
  /\ pc' = pc
  /\ SweepFrame

\* the loop body at a combination whose run raises: nothing catches the
\* error, it leaves the sweep
SweepRunRaises ==
  /\ variant = "Sweep" /\ pc = "loop"
  /\ st.i <= Len(SweepCombinations(p))
  /\ LET c == SweepCombinations(p)[st.i]
         r == SingleRun(p.runner, c, st.data)
     IN  /\ ~Skipped(p.runner, c)
         /\ r.raised # None
         /\ st' = [st EXCEPT !.runs = Append(@, c),
                             !.seen = Append(@, st.data),
                             !.data = r.data,
                             !.raised = r.raised]
  /\ pc' = "raised"
  /\ SweepFrame

\* the loops are exhausted: return pd.DataFrame(results)
SweepReturn ==
  /\ variant = "Sweep" /\ pc = "loop"
  /\ st.i > Len(SweepCombinations(p))
  /\ pc' = "returned"
  /\ UNCHANGED st
  /\ SweepFrame

NextSweep == SweepSkip \/ SweepRun \/ SweepRunRaises \/ SweepReturn

SpecSweep == InitSweep /\ [][NextSweep]_vars

Init == InitBR \/ InitWick \/ InitSmaBt \/ InitRevBt \/ InitSma

Next ==
  \/ BrokerNext
  \/ BRNotify \/ BRNext
  \/ WickNotify \/ WickNext
  \/ BtNotify \/ SmaBtNext \/ RevBtNext
  \/ SmaNotify \/ SmaNext

Spec == Init /\ [][Next]_vars


\* =================================================== properties checked
HasBuy(os) == \E i \in 1..Len(os) : os[i].isbuy
HasSell(os) == \E i \in 1..Len(os) : ~os[i].isbuy

Reversal == variant \in {"BR", "WICK"}

\* the triggered flag of bearish_reversal, the waiting flag of str_wick
EntryFlag(s) == IF variant = "BR" THEN s.triggered ELSE s.waiting

\* the bar reaches both thresholds of the held position
BothHit ==
  /\ bar.high * 100 >= broker.price * (100 + p.take_profit_pct)
  /\ bar.low * 100 <= broker.price * (100 + p.stop_loss_pct)

\* C1: in bearish_reversal and str_wick, a next() that runs while a position
\* is held leaves the streak counter and the triggered/waiting flag as they
\* were and submits no Buy order (so none on a bar that submits an exit).
C1_ExitCheckOnly ==
  [][(pc = "next" /\ Reversal /\ broker.size # 0)
       => /\ st'.streak_count = st.streak_count
          /\ EntryFlag(st') = EntryFlag(st)
          /\ ~HasBuy(obs'.placed)
          /\ ~HasBuy(pending')]_vars

\* a next() ran with a position held on a bearish bar that reached neither
\* threshold: it submitted nothing and counted nothing
C1_Witness ==
  /\ Reversal /\ obs.called /\ broker.size # 0
  /\ bar.close < bar.open
  /\ obs.placed = <<>>
  /\ st.streak_count = 0

\* C2: when the bar processed with a position held reaches the take-profit
\* and the stop-loss threshold, next() submits exactly one order, a sell
\* that carries the take-profit reason.
C2_TakeProfitWins ==
  (Reversal /\ obs.called /\ broker.size # 0 /\ BothHit)
    => /\ Len(obs.placed) = 1
       /\ ~obs.placed[1].isbuy
       /\ obs.placed[1].info = "tp"
       /\ obs.placed[1].size = broker.size

C2_Witness ==
  /\ Reversal /\ obs.called /\ broker.size # 0 /\ BothHit
  /\ obs.placed # <<>>
  /\ obs.placed[1].info = "tp"

\* trades opened and not yet closed
OpenTradeCount ==
  IF variant = "WICK" THEN Len(st.open_trades)
  ELSE st.buy_count - st.sell_count

\* C3: a Buy order is outstanding only while no position is held and is the
\* only outstanding order, a next() that runs with a position held submits
\* no Buy, and at most one trade is open.
C3_OneTradeAtATime ==
  /\ HasBuy(pending) => (broker.size = 0 /\ Len(pending) = 1)
  /\ (obs.called /\ broker.size # 0) => ~HasBuy(obs.placed)
  /\ OpenTradeCount \in {0, 1}
  /\ st.buy_count - st.sell_count \in {0, 1}

\* a buy signal arrived while in position and no order was placed
C3_Witness ==
  /\ variant = "SMABT" /\ obs.called /\ obs.signal = "buy"
  /\ broker.size > 0 /\ obs.placed = <<>> /\ st.buy_count = 1


\* C4: in SMAStrategy, once notify_order has booked a completed fill: after
\* a Buy the position is > 0 and the cash is the cash before the order minus
\* size*price + commission; after the closing Sell the position is 0 and the
\* cash is the cash before the order plus size*price - commission.
C4_FillBookkeeping ==
  (variant = "SMA" /\ obs.fill.done)
    => LET f == obs.fill
           value == Abs(f.esize) * f.eprice
       IN  IF f.isbuy
             THEN /\ broker.size > 0
                  /\ broker.size = f.size + f.esize
                  /\ broker.cash = f.cash - (value + f.comm)
           ELSE /\ broker.size = 0
                /\ Abs(f.esize) = f.size
                /\ broker.cash = f.cash + (value - f.comm)

\* a buy and then its closing sell were booked, both with a fee
C4_Witness ==
  /\ variant = "SMA" /\ obs.fill.done /\ ~obs.fill.isbuy
  /\ obs.fill.comm > 0
  /\ st.buy_count = 1 /\ st.sell_count = 1
  /\ broker.size = 0

\* C5: the position is never negative.
C5_LongOnly == broker.size >= 0

\* a sell was matched and left the position at exactly 0
C5_Witness ==
  /\ obs.fill.done /\ ~obs.fill.isbuy
  /\ obs.fill.size > 0 /\ broker.size = 0

TotalFee(s) ==
  IF variant \in {"SMABT", "REVBT"} THEN s.total_fee_usdt
  ELSE s.total_commission

\* C6: buy_count, sell_count and the total fee change only in the call of
\* notify_order for a Completed order: a completed buy adds 1 to buy_count
\* and leaves sell_count, a completed sell adds 1 to sell_count and leaves
\* buy_count, and every other step (a Submitted, Accepted or Margin
\* notification, a next() that places an order or none, a new bar) leaves
\* the three as they were.
C6_CountersOnFills ==
  [][IF pc = "notify" /\ Head(notes).status = "Completed"
       THEN IF Head(notes).isbuy
              THEN /\ st'.buy_count = st.buy_count + 1
                   /\ st'.sell_count = st.sell_count
            ELSE /\ st'.sell_count = st.sell_count + 1
                 /\ st'.buy_count = st.buy_count
     ELSE /\ st'.buy_count = st.buy_count
          /\ st'.sell_count = st.sell_count
          /\ TotalFee(st') = TotalFee(st)]_vars

\* an order ended Margin after a completed round trip, the counters at 1
C6_Witness ==
  /\ obs.status = "Margin" /\ pc = "next"
  /\ st.buy_count = 1 /\ st.sell_count = 1

BuyAmount == (st.initial_capital * p.buy_pct) \div 100

\* C7: in SmaCoreStrategy and ReversalCoreStrategy, a next() that gets 'buy'
\* while flat with cash < initial_capital*buy_pct places no order and leaves
\* cash, position and counters as they were; and a next() places a Buy order
\* only when its own call of update returned 'buy'.
C7_NoBuyWithoutCash ==
  [][(pc = "next" /\ variant \in {"SMABT", "REVBT"})
       => /\ (obs'.signal = "buy" /\ obs'.called /\ broker.size = 0
                /\ broker.cash < BuyAmount)
               => /\ obs'.placed = <<>>
                  /\ pending' = pending
                  /\ broker' = broker
                  /\ st' = st
          /\ HasBuy(obs'.placed) => (obs'.called /\ obs'.signal = "buy")]_vars

\* a buy signal met too little cash after a losing round trip
C7_Witness ==
  /\ variant \in {"SMABT", "REVBT"} /\ obs.called /\ obs.signal = "buy"
  /\ broker.size = 0 /\ broker.cash < BuyAmount
  /\ obs.placed = <<>> /\ st.sell_count = 1

\* C8: in SmaCoreStrategy and ReversalCoreStrategy, a next() that gets
\* 'sell' while no position is held places no order and leaves cash,
\* position and counters as they were.
C8_SellWhileFlat ==
  [][(pc = "next" /\ variant \in {"SMABT", "REVBT"}
        /\ obs'.called /\ obs'.signal = "sell" /\ broker.size = 0)
       => /\ obs'.placed = <<>>
          /\ pending' = pending
          /\ broker' = broker
          /\ st' = st]_vars

\* the first signal of the SMA engine was 'sell', with nothing held
C8_Witness ==
  /\ variant = "SMABT" /\ obs.called /\ obs.signal = "sell"
  /\ broker.size = 0 /\ st.buy_count = 0 /\ obs.placed = <<>>
  /\ Len(core.prices) = core.long_period

\* C9: while SmaCore has seen fewer than long_period prices, the last call
\* of update returned None and last_signal is None.
C9_NoSignalInWarmup ==
  (variant = "SmaCore" /\ Len(core.prices) < core.long_period)
    => (obs.signal = None /\ core.last_signal = None)

\* two prices fed to an engine with long_period 3
C9_Witness ==
  /\ variant = "SmaCore" /\ obs.called
  /\ core.long_period = 3 /\ Len(core.prices) = 2
  /\ core.prices[1] < core.prices[2]

\* C10: when two consecutive calls of update both find short SMA > long SMA
\* the second returns None, and likewise for short SMA < long SMA.
C10_NoRepeatedSignal ==
  (variant = "SmaCore" /\ obs.prevcmp = obs.cmp /\ obs.cmp \in {">", "<"})
    => obs.signal = None

\* the second of two short > long calls
C10_Witness ==
  /\ variant = "SmaCore" /\ obs.prevcmp = ">" /\ obs.cmp = ">"
  /\ core.last_signal = "buy"

\* C11: in the values other than None that one SmaCore returns, no signal
\* occurs twice in a row: a call of update never returns the signal that the
\* last returning call returned.
C11_SignalsAlternate ==
  [][(variant = "SmaCore" /\ obs'.signal # None)
       => obs'.signal # obs.emitted]_vars

\* C12: a call of update that finds short SMA = long SMA returns None and
\* leaves last_signal as it was before the call.
C12_TieKeepsLastSignal ==
  (variant = "SmaCore" /\ obs.called /\ obs.cmp = "=")
    => (obs.signal = None /\ core.last_signal = obs.pre.last_signal)

\* mean(last short_period prices) > mean(last long_period prices), and <,
\* for the prices q, with the divisions multiplied out
ShortMeanAbove(q, sp, lp) ==
  SumSeq(LastN(q, sp)) * lp > SumSeq(LastN(q, lp)) * sp
ShortMeanBelow(q, sp, lp) ==
  SumSeq(LastN(q, sp)) * lp < SumSeq(LastN(q, lp)) * sp

\* C13: once long_period prices have been fed, update returns 'buy' only if
\* the mean of the last short_period prices is above the mean of the last
\* long_period prices and 'sell' only if it is below; and while nothing has
\* been returned yet, a bar with a strict relation returns its signal.
C13_SignalMatchesMeans ==
  [][(variant = "SmaCore" /\ Len(core'.prices) >= p.long_period)
       => LET q == core'.prices
              above == ShortMeanAbove(q, p.short_period, p.long_period)
              below == ShortMeanBelow(q, p.short_period, p.long_period)
          IN  /\ obs'.signal = "buy" => above
              /\ obs'.signal = "sell" => below
              /\ (obs.emitted = None /\ above) => obs'.signal = "buy"
              /\ (obs.emitted = None /\ below) => obs'.signal = "sell"]_vars

\* a 'sell' returned as the first signal, after a tie, by an engine whose
\* windows no longer reach the first price
C13_Witness ==
  /\ variant = "SmaCore" /\ obs.called
  /\ Len(core.prices) > p.long_period
  /\ obs.prevcmp = "=" /\ obs.signal = "sell"
  /\ obs.pre.last_signal = None
  /\ core.prices[1] < core.prices[2]

\* C14: a call of update on a ReversalCore that is neither in position nor
\* triggered returns None; a bar with close < open adds 1 to bear_count and
\* triggers the engine exactly when the count reaches the threshold, any
\* other bar sets bear_count to 0; the count of an untriggered engine is
\* below the threshold.
C14_TriggerOnThreshold ==
  [][(variant = "RevCore" /\ ~core.in_position /\ ~core.triggered)
       => /\ core.bear_count < core.consecutive_bear_threshold
          /\ obs'.signal = None
          /\ ~core'.in_position
          /\ IF bar'.close < bar'.open
               THEN /\ core'.bear_count = core.bear_count + 1
                    /\ core'.triggered
                          = (core.bear_count + 1
                               = core.consecutive_bear_threshold)
             ELSE /\ core'.bear_count = 0
                  /\ ~core'.triggered]_vars

\* the third bearish bar in a row triggers an engine of threshold 3 that an
\* earlier bar had reset
C14_Witness ==
  /\ variant = "RevCore" /\ p.feed = "any" /\ obs.called
  /\ core.consecutive_bear_threshold = 3
  /\ core.triggered /\ ~obs.pre.triggered /\ core.bear_count = 3
  /\ nbars > 3
  /\ obs.signal = None

\* C15: a call of update on a triggered ReversalCore with a bar of
\* close <= open returns None and leaves triggered set and bear_count as it
\* was; with a bar of close > open it returns 'buy', clears triggered, sets
\* bear_count to 0 and opens the position.
C15_BuyOnFirstBullishBar ==
  [][(variant = "RevCore" /\ ~core.in_position /\ core.triggered)
       => IF bar'.close > bar'.open
            THEN /\ obs'.signal = "buy"
                 /\ ~core'.triggered
                 /\ core'.bear_count = 0
                 /\ core'.in_position
          ELSE /\ obs'.signal = None
               /\ core'.triggered
               /\ core'.bear_count = core.bear_count
               /\ ~core'.in_position]_vars

\* 'buy' on a bullish bar that follows a doji seen while triggered, in an
\* engine that has sold before
C15_Witness ==
  /\ variant = "RevCore" /\ p.feed = "any"
  /\ obs.signal = "buy" /\ obs.pre.triggered
  /\ obs.pre.last_signal = "sell"
  /\ prev.close = prev.open
  /\ obs.pre.bear_count = core.consecutive_bear_threshold
  /\ bar.close > bar.open

\* C16: a call of update on a ReversalCore in position with a bar of
\* high < take_profit_price and low > stop_loss_price returns None and
\* changes nothing; with any other bar it returns 'sell' and leaves the
\* engine out of position, untriggered, with bear_count 0 and buy_price,
\* take_profit_price and stop_loss_price cleared.
C16_ExitOnThreshold ==
  [][(variant = "RevCore" /\ core.in_position)
       => IF \/ bar'.high * 100 >= core.take_profit_price
             \/ bar'.low * 100 <= core.stop_loss_price
            THEN /\ obs'.signal = "sell"
                 /\ ~core'.in_position /\ ~core'.triggered
                 /\ core'.bear_count = 0
                 /\ core'.buy_price = None
                 /\ core'.take_profit_price = None
                 /\ core'.stop_loss_price = None
          ELSE /\ obs'.signal = None
               /\ core' = core]_vars

\* 'sell' on a bar whose high is exactly the take-profit price, after a bar
\* that touched neither threshold
C16_Witness ==
  /\ variant = "RevCore" /\ p.feed = "any"
  /\ obs.signal = "sell" /\ obs.pre.in_position
  /\ bar.high * 100 = obs.pre.take_profit_price
  /\ bar.low * 100 > obs.pre.stop_loss_price
  /\ prev.close = prev.open

\* C17: while a ReversalCore is in position, take_profit_price is
\* buy_price * (1 + take_profit_pct/100) and stop_loss_price is
\* buy_price * (1 + stop_loss_pct/100) (both kept times 100), buy_price is
\* the close of the entry bar and stays what it was, and
\* stop_loss_price < buy_price < take_profit_price.
C17_ThresholdsAroundEntry ==
  [][(variant = "RevCore" /\ core'.in_position)
       => /\ core'.buy_price
               = (IF core.in_position THEN core.buy_price ELSE bar'.close)
          /\ core'.buy_price > 0
          /\ core'.take_profit_price
               = core'.buy_price * (100 + p.take_profit_pct)
          /\ core'.stop_loss_price
               = core'.buy_price * (100 + p.stop_loss_pct)
          /\ core'.stop_loss_price < core'.buy_price * 100
          /\ core'.buy_price * 100 < core'.take_profit_price]_vars

\* a position two bars old, entered at 2 with the default percentages
C17_Witness ==
  /\ variant = "RevCore" /\ p.feed = "any"
  /\ core.in_position /\ obs.pre.in_position /\ obs.signal = None
  /\ core.buy_price = 2
  /\ core.take_profit_price = 206 /\ core.stop_loss_price = 196

FillPriceHit ==
  \/ TakeProfitHit(bar.high, broker.price, p.take_profit_pct)
  \/ StopLossHit(bar.low, broker.price, p.stop_loss_pct)

\* C18: in ConsecutiveBearishBuyMarketStrategy and in ReversalCoreStrategy
\* a next() that runs with a position held submits the exit exactly when
\* the bar reaches the take-profit or the stop-loss threshold derived from
\* the price at which the Buy order was filled.
C18_ExitFromFillPrice ==
  (variant \in {"BR", "REVBT"} /\ obs.called /\ broker.size > 0)
    => (HasSell(obs.placed) <=> FillPriceHit)

\* C20: a next() that submits a Buy order submits no exit with it, and a
\* call of update that returns 'buy' leaves the engine in position, whatever
\* the high and the low of that bar.
C20_NoExitOnEntryBar ==
  [][(pc = "next" /\ variant \in {"BR", "REVBT"})
       => /\ HasBuy(obs'.placed)
               => (~HasSell(obs'.placed) /\ ~HasSell(pending'))
          /\ (variant = "REVBT" /\ obs'.signal = "buy")
               => (core'.in_position /\ core'.buy_price = bar.close)]_vars

\* a Buy order submitted on a bar whose own low is under the stop-loss
\* threshold of its close
C20_Witness ==
  /\ variant = "BR" /\ obs.called /\ HasBuy(obs.placed)
  /\ StopLossHit(bar.low, bar.close, p.stop_loss_pct)
  /\ st.in_trade

\* the smaller of two numbers
Min(a, b) == IF a < b THEN a ELSE b

C29_NoSizeFromBadPrice ==
  (variant = "Sizer" /\ pc = "sized" /\ st.close <= 0
     /\ (p.sizer = "Fixed" \/ st.isbuy))
    => (st.raised # None /\ st.size = None)

\* C22: in SMAStrategy and in bearish_reversal a completed order is charged
\* |executed size * executed price| * rate, the maker rate if the order is
\* marked maker and the taker rate otherwise, and no order these strategies
\* submit is marked maker: each is charged the taker rate.
C22_TakerCommission ==
  [][(pc = "notify" /\ variant \in {"SMA", "BR"}
        /\ Head(notes).status = "Completed")
       => LET n == Head(notes)
              value == Abs(n.size * n.price)
              charged == st'.total_commission - st.total_commission
          IN  /\ charged = Fee(value, IF n.info = "maker" THEN MakerRate
                                      ELSE TakerRate)
              /\ n.info # "maker"
              /\ charged = Fee(value, TakerRate)
              /\ obs'.fill.comm = charged]_vars

\* a completed exit of bearish_reversal charged 0.1% of 500 units at price 3
C22_Witness ==
  /\ variant = "BR" /\ obs.fill.done /\ ~obs.fill.isbuy
  /\ obs.status = "Completed"
  /\ Abs(obs.fill.esize) = 500 * Scale /\ obs.fill.eprice = 3
  /\ obs.fill.comm = 1500

\* C28: a Buy whose size * price + commission exceeds the available cash is
\* never booked, so broker cash is >= 0 after every fill, also with
\* FixedAmountSizer at fixed_percent = 100.
C28_CashNeverNegative ==
  (variant \in {"BR", "WICK"} /\ obs.fill.done) => broker.cash >= 0

\* C30: in SMAStrategy, bearish_reversal, SmaCoreStrategy and
\* ReversalCoreStrategy the fee booked for a completed fill is subtracted
\* from broker cash when the fill is notified.
C30_FeeLeavesCash ==
  [][(pc = "notify" /\ variant \in {"SMA", "BR", "SMABT", "REVBT"}
        /\ Head(notes).status = "Completed")
       => broker'.cash = broker.cash - (TotalFee(st') - TotalFee(st))]_vars

IsShortBelowLong(c) == c.first < c.second

IsValidExitPair(c) == c.first > 0 /\ c.second < 0

C24_ReversalGridFilter ==
  (variant = "Sweep" /\ p.runner \notin SmaRunners)
    => /\ \A k \in 1..Len(st.runs) : IsValidExitPair(st.runs[k])
       /\ \A k \in 1..Len(st.results) : IsValidExitPair(st.results[k])

\* C26: a single run leaves the caller's bar data as it was passed in, so
\* every combination of a sweep is handed the data the first one was handed.
C26_CallerDataUntouched ==
  variant = "Sweep"
    => /\ st.data = p.data
       /\ \A k \in 1..Len(st.seen) : st.seen[k] = p.data

\* C27: in run_bearish_reversal_backtest_multi and run_sma_backtest_multi a
\* failing run does not end the sweep: the sweep returns, every combination
\* that passes the filter has been run, and the rows are those of the runs
\* that did not fail.
C27_FailureIsolated ==
  (variant = "Sweep"
     /\ p.runner \in {"run_sma_backtest_multi",
                      "run_bearish_reversal_backtest_multi"})
    => /\ pc # "raised"
       /\ pc = "returned"
            => /\ Len(st.runs) =
                    Cardinality({k \in 1..Len(SweepCombinations(p)) :
                                   ~Skipped(p.runner,
                                            SweepCombinations(p)[k])})
               /\ Len(st.results) <= Len(st.runs)

\* C31: in the run of test_candles by ReversalCore(3, 3, -2) the fifth candle
\* returns None with the position held, and the sixth returns 'sell'.
C31_DemoComments ==
  (variant = "RevCore" /\ p.feed = "demo")
    => /\ nbars = 5 => (obs.signal = None /\ core.in_position)
       /\ nbars = 6 => (obs.signal = "sell" /\ ~core.in_position)

\* C32: in str_wick, a next() that runs flat and not waiting sets the streak
\* to streak + 1 on a bearish bar whose low is strictly below the previous
\* bar's low, to 1 on a bearish bar whose low is not, and to 0 on a bar that
\* is not bearish; waiting is entered exactly when the streak is then equal
\* to `consecutive`.
C32_WickStreak ==
  [][(variant = "WICK" /\ pc = "next" /\ broker.size = 0 /\ ~st.waiting)
       => /\ st'.streak_count =
               IF bar.close < bar.open
                 THEN IF bar.low < prev.low THEN st.streak_count + 1 ELSE 1
               ELSE 0
          /\ st'.waiting = (st'.streak_count = p.consecutive)]_vars

\* a streak of 1 restarted at 1 by a second bearish bar whose low is the
\* previous low
C32_Witness ==
  /\ variant = "WICK" /\ pc = "bar" /\ nbars >= 2 /\ obs.called
  /\ p.consecutive = 2 /\ broker.size = 0 /\ ~st.waiting
  /\ st.buy_count = 0 /\ obs.placed = <<>>
  /\ prev.close < prev.open /\ bar.close < bar.open
  /\ bar.low = prev.low
  /\ st.streak_count = 1

C34_EngineMatchesBroker ==
  (variant = "REVBT" /\ pc = "bar" /\ pending = <<>> /\ notes = <<>>)
    => (core.in_position <=> broker.size # 0)

\* C35: in every state of ReversalCore (threshold >= 1) triggered and
\* in_position are not both true; buy_price, take_profit_price and
\* stop_loss_price are all numbers when in_position holds and all None when
\* it does not; in_position implies bear_count = 0; triggered implies
\* bear_count >= consecutive_bear_threshold; with neither flag
\* 0 <= bear_count < consecutive_bear_threshold.
C35_CoreStateInvariant ==
  variant = "RevCore"
    => /\ ~(core.triggered /\ core.in_position)
       /\ IF core.in_position
            THEN /\ core.buy_price > 0
                 /\ core.take_profit_price > 0
                 /\ core.stop_loss_price > 0
          ELSE /\ core.buy_price = None
               /\ core.take_profit_price = None
               /\ core.stop_loss_price = None
       /\ core.in_position => core.bear_count = 0
       /\ core.triggered
            => core.bear_count >= core.consecutive_bear_threshold
       /\ (~core.triggered /\ ~core.in_position)
            => /\ 0 <= core.bear_count
               /\ core.bear_count < core.consecutive_bear_threshold

\* a second entry: in position again, the count back at 0, after a 'sell'
\* and a new bearish bar
C35_Witness ==
  /\ variant = "RevCore" /\ p.feed = "any"
  /\ core.consecutive_bear_threshold = 1
  /\ core.in_position /\ core.bear_count = 0
  /\ obs.pre.triggered /\ obs.pre.bear_count = 1
  /\ obs.pre.last_signal = "sell"

\* C36: every call of ReversalCore.update that moves the engine into
\* position returns 'buy' and every call that moves it out returns 'sell';
\* a value returned differs from the one returned last, and the first one
\* is 'buy'.
C36_GuardNeverSuppresses ==
  [][variant = "RevCore"
       => /\ (~core.in_position /\ core'.in_position) => obs'.signal = "buy"
          /\ (core.in_position /\ ~core'.in_position) => obs'.signal = "sell"
          /\ obs'.signal = "buy" => obs.emitted \in {None, "sell"}
          /\ obs'.signal = "sell" => obs.emitted = "buy"]_vars

\* the second 'buy' of a run: returned after a 'sell'
C36_Witness ==
  /\ variant = "RevCore" /\ p.feed = "any"
  /\ obs.signal = "buy" /\ obs.pre.last_signal = "sell"
  /\ core.in_position /\ ~obs.pre.in_position

C38_FeeNeverDecreases ==
  [][(variant \in {"BR", "WICK", "SMA", "SMABT", "REVBT"})
       => (TotalFee(st) <= TotalFee(st'))]_vars

\* C40: a SmaCore constructed with short_period = long_period returns None
\* from every call of update and last_signal stays None.
C40_EqualPeriodsSilent ==
  (variant = "SmaCore" /\ p.short_period = p.long_period)
    => /\ obs.signal = None
       /\ obs.emitted = None
       /\ core.last_signal = None

\* past the warm-up of SmaCore(2, 2), on prices that rose and then fell
C40_Witness ==
  /\ variant = "SmaCore" /\ p.short_period = 2 /\ p.long_period = 2
  /\ Len(core.prices) >= 3
  /\ core.prices[1] < core.prices[2] /\ core.prices[3] < core.prices[2]
  /\ obs.cmp = "=" /\ obs.signal = None

\* C39: a ReversalCore and a bearish_reversal strategy with the same
\* threshold >= 1, given the same bars from their initial states, are
\* triggered after the same bars, and the bar on which the one returns its
\* first 'buy' is the bar on which the other submits its first Buy.
C39_SameTriggerSameEntry ==
  variant = "Both"
    => /\ core.triggered = st.triggered
       /\ core.in_position = st.in_trade
       /\ (obs.signal = "buy") <=> HasBuy(obs.placed)

\* both entered on the bullish bar that followed three bearish bars and a
\* doji
C39_Witness ==
  /\ variant = "Both" /\ p.consecutive = 3 /\ nbars = 5
  /\ prev.close = prev.open /\ bar.close > bar.open
  /\ obs.pre.triggered /\ obs.pre.bear_count = 3
  /\ obs.signal = "buy" /\ st.in_trade /\ HasBuy(obs.placed)

====
